---- MODULE Spec2Model ----
(***************************************************************************)
(* Model of models/extractor.py: the Extractor module assembler            *)
(* (Extractor.__init__) and its conditional forward pass                   *)
(* (Extractor.forward).                                                    *)
(*                                                                         *)
(* Tensors are modelled by their column layout: a tensor is either None or *)
(* a sequence of column blocks, each block naming the sub-network that     *)
(* produced it and its width.  The batch dimension plays no part in the    *)
(* logic of the file and is left out; the batch handed to forward has the  *)
(* width input_dim its contract requires.                                  *)
(***************************************************************************)
EXTENDS Integers, Sequences, FiniteSets, TLC

\* ------------------------------------------------------------------ bounds
MaxDim == 2
MaxSel == 2

\* Defaults of Extractor.__init__
EncoderNeuronsDefault == 50
DecoderNeuronsDefault == 50
MainLatentDimDefault == 2

SigNames == {"s1", "s2"}
PhenoNames == {"p1"}
UnknownName == "zz"

LatDims == 1..MaxDim
OutDims == {1}
MainDims == {1, MainLatentDimDefault}
InputDims == {MaxDim + 1}
CtorDims == {-1, 0, 1}

\* ------------------------------------------------------------ configurations
\* A configuration is None or an insertion-ordered dict: a sequence of
\* entries with distinct names.
NoneCfg == [none |-> TRUE, items |-> <<>>]

Cfg(items) == [none |-> FALSE, items |-> items]

Keys(cfg) == [i \in 1..Len(cfg.items) |-> cfg.items[i].name]

KeySet(cfg) == {cfg.items[i].name : i \in 1..Len(cfg.items)}

KeySeqs(names, n) ==
    {s \in UNION {[1..k -> names] : k \in 0..n} :
        \A i, j \in 1..Len(s) : i # j => s[i] # s[j]}

ConfigsOver(names, n, lats, outs) ==
    {NoneCfg} \cup
    UNION {{Cfg([i \in 1..Len(ks) |->
                  [name |-> ks[i], lat_dim |-> l[i], out_dim |-> o[i]]]) :
              l \in [1..Len(ks) -> lats], o \in [1..Len(ks) -> outs]} :
           ks \in KeySeqs(names, n)}

\* selected_signature / selected_pheno: None or a list of names
NoneSel == [none |-> TRUE, names |-> <<>>]

Sel(names) == [none |-> FALSE, names |-> names]

SelLists(names, n) ==
    {NoneSel} \cup {Sel(s) : s \in UNION {[1..k -> names] : k \in 0..n}}

\* ------------------------------------------------------------------ tensors
NoneT == [none |-> TRUE, cols |-> <<>>]

Block(kind, name, width) ==
    [none |-> FALSE, cols |-> <<[kind |-> kind, name |-> name, width |-> width]>>]

RECURSIVE ColsWidth(_, _)
ColsWidth(cols, i) ==
    IF i > Len(cols) THEN 0 ELSE cols[i].width + ColsWidth(cols, i + 1)

Width(t) == ColsWidth(t.cols, 1)

EmptyDict == [n \in {} |-> NoneT]

\* ------------------------------------------------- layer library (modules)
FCPreEncoder(input_dim, output_dim, hidden_neurons) ==
    [input_dim |-> input_dim, output_dim |-> output_dim,
     hidden_neurons |-> hidden_neurons]

FCCompressor(input_dim, output_dim) ==
    [input_dim |-> input_dim, output_dim |-> output_dim]

LinRegressor(input_dim, output_dim) ==
    [input_dim |-> input_dim, output_dim |-> output_dim]

LinClassifier(input_dim, output_dim) ==
    [input_dim |-> input_dim, output_dim |-> output_dim]

FCDecoder(input_dim, output_dim, hidden_neurons) ==
    [input_dim |-> input_dim, output_dim |-> output_dim,
     hidden_neurons |-> hidden_neurons]

\* Whether the layer library builds a layer of the given widths.  A layer of
\* a negative width cannot be allocated; whether a zero width is rejected is
\* the library's choice (rejectZero).
LayerCtorOk(widths, rejectZero) ==
    \A w \in widths : IF rejectZero THEN w > 0 ELSE w >= 0

\* Applying a layer: the input must be a tensor whose width is the layer's
\* input width; the output is one block of the layer's output width.
Apply(layer, t, kind, name) ==
    IF t.none THEN [err |-> "TypeError", out |-> NoneT]
    ELSE IF Width(t) # layer.input_dim THEN [err |-> "ShapeError", out |-> NoneT]
    ELSE [err |-> "none", out |-> Block(kind, name, layer.output_dim)]

\* torch.cat((a, b), 1): both operands must be tensors
Cat(a, b) ==
    IF a.none \/ b.none THEN [err |-> "TypeError", out |-> NoneT]
    ELSE [err |-> "none", out |-> [none |-> FALSE, cols |-> a.cols \o b.cols]]

\* --------------------------------------------------- Extractor.__init__
\* total_latent_dim = total_latent_dim + config[cur]['signature_lat_dim']
AddSignatureLatDim(total_latent_dim, entry) == total_latent_dim + entry.lat_dim

\* faulty variant: the phenotype latent widths are left out of the total
AddPhenoLatDimSkipped(total_latent_dim, entry) == total_latent_dim

\* total_latent_dim = total_latent_dim + config[cur]['pheno_lat_dim']
AddPhenoLatDim(total_latent_dim, entry) == total_latent_dim + entry.lat_dim

\* The loop over signature_config.keys() that sums the latent widths and
\* builds one compressor per signature.  acc = [total, dict, widths].
RECURSIVE SignatureCompressorLoop(_, _, _, _)
SignatureCompressorLoop(items, encoder_neurons, i, acc) ==
    IF i > Len(items) THEN acc
    ELSE SignatureCompressorLoop(items, encoder_neurons, i + 1,
            [total |-> AddSignatureLatDim(acc.total, items[i]),
             dict |-> (items[i].name :> FCCompressor(encoder_neurons, items[i].lat_dim))
                      @@ acc.dict,
             widths |-> acc.widths \cup {encoder_neurons, items[i].lat_dim}])

RECURSIVE SignatureRegressorLoop(_, _, _)
SignatureRegressorLoop(items, i, acc) ==
    IF i > Len(items) THEN acc
    ELSE SignatureRegressorLoop(items, i + 1,
            [dict |-> (items[i].name :> LinRegressor(items[i].lat_dim, items[i].out_dim))
                      @@ acc.dict,
             widths |-> acc.widths \cup {items[i].lat_dim, items[i].out_dim}])

RECURSIVE PhenoCompressorLoop(_, _, _, _)
PhenoCompressorLoop(items, encoder_neurons, i, acc) ==
    IF i > Len(items) THEN acc
    ELSE PhenoCompressorLoop(items, encoder_neurons, i + 1,
            [total |-> AddPhenoLatDim(acc.total, items[i]),
             dict |-> (items[i].name :> FCCompressor(encoder_neurons, items[i].lat_dim))
                      @@ acc.dict,
             widths |-> acc.widths \cup {encoder_neurons, items[i].lat_dim}])

RECURSIVE PhenoModelLoop(_, _, _)
PhenoModelLoop(items, i, acc) ==
    IF i > Len(items) THEN acc
    ELSE PhenoModelLoop(items, i + 1,
            [dict |-> (items[i].name :> LinClassifier(items[i].lat_dim, items[i].out_dim))
                      @@ acc.dict,
             widths |-> acc.widths \cup {items[i].lat_dim, items[i].out_dim}])

EmptyModules == [n \in {} |-> FCCompressor(0, 0)]

\* The widths handed to the layer constructors, and the instance assembled
\* from them.  `if config is not None` guards every loop; a None
\* configuration has no items.
ExtractorInit(a) ==
    LET sigC == SignatureCompressorLoop(a.signature_config.items, a.encoder_neurons, 1,
                    [total |-> a.main_latent_dim, dict |-> EmptyModules, widths |-> {}])
        sigR == SignatureRegressorLoop(a.signature_config.items, 1,
                    [dict |-> EmptyModules, widths |-> {}])
        phC == PhenoCompressorLoop(a.pheno_config.items, a.encoder_neurons, 1,
                    [total |-> sigC.total, dict |-> EmptyModules, widths |-> {}])
        phM == PhenoModelLoop(a.pheno_config.items, 1,
                    [dict |-> EmptyModules, widths |-> {}])
        total_latent_dim == phC.total
    IN [widths |-> {a.input_dim, a.encoder_neurons, a.main_latent_dim,
                    total_latent_dim, a.decoder_neurons}
                   \cup sigC.widths \cup sigR.widths \cup phC.widths \cup phM.widths,
        self |->
          [input_dim |-> a.input_dim,
           encoder_neurons |-> a.encoder_neurons,
           decoder_neurons |-> a.decoder_neurons,
           main_latent_dim |-> a.main_latent_dim,
           signature_config |-> a.signature_config,
           pheno_config |-> a.pheno_config,
           model |->
             [pre_encoder |-> FCPreEncoder(a.input_dim, a.encoder_neurons, a.encoder_neurons),
              main_latent_compressor |-> FCCompressor(a.encoder_neurons, a.main_latent_dim),
              signature_latent_compressors |-> sigC.dict,
              signature_regressors |-> sigR.dict,
              pheno_latent_compressors |-> phC.dict,
              pheno_models |-> phM.dict,
              decoder |-> FCDecoder(total_latent_dim, a.input_dim, a.decoder_neurons)]]]

\* What the caller holds before an instance exists, or after __init__ raised
NoInstance ==
    [input_dim |-> 0, encoder_neurons |-> 0, decoder_neurons |-> 0,
     main_latent_dim |-> 0, signature_config |-> NoneCfg, pheno_config |-> NoneCfg,
     model |-> [pre_encoder |-> FCPreEncoder(0, 0, 0),
                main_latent_compressor |-> FCCompressor(0, 0),
                signature_latent_compressors |-> EmptyModules,
                signature_regressors |-> EmptyModules,
                pheno_latent_compressors |-> EmptyModules,
                pheno_models |-> EmptyModules,
                decoder |-> FCDecoder(0, 0, 0)]]

NoArgs ==
    [input_dim |-> 0, encoder_neurons |-> 0, decoder_neurons |-> 0,
     main_latent_dim |-> 0, signature_config |-> NoneCfg, pheno_config |-> NoneCfg]

\* ----------------------------------------------------- Extractor.forward
\* The batch of the call: a tensor of input_dim columns
Batch(self) == Block("batch", "", self.input_dim)

\* faulty variant: the explicit list is ignored, every configured signature is active
ActiveSignaturesAllKeys(self, c) ==
    IF self.signature_config.none
    THEN [err |-> "AttributeError", names |-> <<>>]
    ELSE [err |-> "none", names |-> Keys(self.signature_config)]

\* if selected_signature is None: selected_signature = signature_config.keys()
\* (None has no keys(): AttributeError)
ActiveSignatures(self, c) ==
    IF c.selected_signature.none
    THEN IF self.signature_config.none
         THEN [err |-> "AttributeError", names |-> <<>>]
         ELSE [err |-> "none", names |-> Keys(self.signature_config)]
    ELSE [err |-> "none", names |-> c.selected_signature.names]

\* faulty variant: an absent configuration is read as an empty one
ActivePhenosNoneAsEmpty(self, c) ==
    IF c.selected_pheno.none
    THEN [err |-> "none", names |-> Keys(self.pheno_config)]
    ELSE [err |-> "none", names |-> c.selected_pheno.names]

\* if selected_pheno is None: selected_pheno = pheno_config.keys()
ActivePhenos(self, c) ==
    IF c.selected_pheno.none
    THEN IF self.pheno_config.none
         THEN [err |-> "AttributeError", names |-> <<>>]
         ELSE [err |-> "none", names |-> Keys(self.pheno_config)]
    ELSE [err |-> "none", names |-> c.selected_pheno.names]

\* faulty variant: the signature latent is appended whatever the flags
AppendSignatureAlways(c) == TRUE

\* if forward_reconstruction or forward_signature:
AppendSignatureLatent(c) == c.forward_reconstruction \/ c.forward_signature

\* faulty variant: reconstruction no longer forces the phenotype latent in
AppendPhenoOnlyIfForwarded(c) == c.forward_pheno

\* if forward_reconstruction or forward_pheno:
AppendPhenoLatent(c) == c.forward_reconstruction \/ c.forward_pheno

\* faulty variant: the main latent is computed and seeds the accumulator whatever
\* forward_main_latent is
MainLatentAlways(self, c, x) ==
    Apply(self.model.main_latent_compressor, x, "main", "")

\* lat_main = None; if forward_main_latent: lat_main = main_latent_compressor(x)
MainLatent(self, c, x) ==
    IF c.forward_main_latent
    THEN Apply(self.model.main_latent_compressor, x, "main", "")
    ELSE [err |-> "none", out |-> NoneT]

\* faulty variant: the failing group is skipped silently
RaiseSwallowed(st, err, stage, i) == st

\* an exception leaves the loop at once
Raise(st, err, stage, i) == [st EXCEPT !.err = err, !.stage = stage, !.index = i]

\* for cur_signature in selected_signature: ...
\* st = [err, stage, index, lat_all, lat, out]
RECURSIVE SignatureLoop(_, _, _, _, _, _)
SignatureLoop(self, c, x, sel, i, st) ==
    IF st.err # "none" \/ i > Len(sel) THEN st
    ELSE LET cur == sel[i] IN
      IF cur \notin DOMAIN self.model.signature_latent_compressors
      THEN Raise(st, "KeyError", "signature", i)
      ELSE LET lat == Apply(self.model.signature_latent_compressors[cur], x, "signature", cur)
               cat == IF AppendSignatureLatent(c) THEN Cat(st.lat_all, lat.out)
                      ELSE [err |-> "none", out |-> st.lat_all]
           IN IF lat.err # "none" THEN Raise(st, lat.err, "signature", i)
              ELSE IF cat.err # "none" THEN Raise(st, cat.err, "signature", i)
              ELSE IF cur \notin DOMAIN self.model.signature_regressors
              THEN Raise(st, "KeyError", "signature", i)
              ELSE LET out == Apply(self.model.signature_regressors[cur], lat.out,
                                    "signature_out", cur)
                   IN IF out.err # "none" THEN Raise(st, out.err, "signature", i)
                      ELSE SignatureLoop(self, c, x, sel, i + 1,
                             [st EXCEPT !.lat_all = cat.out,
                                        !.lat = (cur :> lat.out) @@ st.lat,
                                        !.out = (cur :> out.out) @@ st.out])

\* for cur_pheno in selected_pheno: ...
RECURSIVE PhenoLoop(_, _, _, _, _, _)
PhenoLoop(self, c, x, sel, i, st) ==
    IF st.err # "none" \/ i > Len(sel) THEN st
    ELSE LET cur == sel[i] IN
      IF cur \notin DOMAIN self.model.pheno_latent_compressors
      THEN Raise(st, "KeyError", "pheno", i)
      ELSE LET lat == Apply(self.model.pheno_latent_compressors[cur], x, "pheno", cur)
               cat == IF AppendPhenoLatent(c) THEN Cat(st.lat_all, lat.out)
                      ELSE [err |-> "none", out |-> st.lat_all]
           IN IF lat.err # "none" THEN Raise(st, lat.err, "pheno", i)
              ELSE IF cat.err # "none" THEN Raise(st, cat.err, "pheno", i)
              ELSE IF cur \notin DOMAIN self.model.pheno_models
              THEN Raise(st, "KeyError", "pheno", i)
              ELSE LET out == Apply(self.model.pheno_models[cur], lat.out, "pheno_out", cur)
                   IN IF out.err # "none" THEN Raise(st, out.err, "pheno", i)
                      ELSE PhenoLoop(self, c, x, sel, i + 1,
                             [st EXCEPT !.lat_all = cat.out,
                                        !.lat = (cur :> lat.out) @@ st.lat,
                                        !.out = (cur :> out.out) @@ st.out])

\* What the caller of forward observes.  An exception leaves the caller
\* without a result bag: the dictionaries filled so far are locals of the
\* call and are lost with it.  decoder_arg records the accumulator handed to
\* the decoder when the call got that far.
NoResult ==
    [status |-> "none", stage |-> "none", index |-> 0, bag |-> FALSE,
     x |-> NoneT, lat_main |-> NoneT, lat_signature |-> EmptyDict,
     signature_out |-> EmptyDict, lat_pheno |-> EmptyDict, pheno_out |-> EmptyDict,
     re_x |-> NoneT, lat_all |-> NoneT, decoder_arg |-> NoneT]

Raised(err, stage, index, decoder_arg) ==
    [NoResult EXCEPT !.status = err, !.stage = stage, !.index = index,
                     !.decoder_arg = decoder_arg]

Forward(self, c) ==
    LET pre == Apply(self.model.pre_encoder, Batch(self), "x", "")
        x == pre.out
        main == MainLatent(self, c, x)
        lat_main == main.out
        selS == ActiveSignatures(self, c)
        sig == SignatureLoop(self, c, x, selS.names, 1,
                  [err |-> "none", stage |-> "none", index |-> 0,
                   lat_all |-> lat_main, lat |-> EmptyDict, out |-> EmptyDict])
        selP == ActivePhenos(self, c)
        ph == PhenoLoop(self, c, x, selP.names, 1,
                  [err |-> "none", stage |-> "none", index |-> 0,
                   lat_all |-> sig.lat_all, lat |-> EmptyDict, out |-> EmptyDict])
        lat_all == ph.lat_all
        dec == IF c.forward_reconstruction
               THEN Apply(self.model.decoder, lat_all, "re_x", "")
               ELSE [err |-> "none", out |-> NoneT]
    IN IF pre.err # "none" THEN Raised(pre.err, "pre_encoder", 0, NoneT)
       ELSE IF main.err # "none" THEN Raised(main.err, "main", 0, NoneT)
       ELSE IF selS.err # "none" THEN Raised(selS.err, "signature", 0, NoneT)
       ELSE IF sig.err # "none" THEN Raised(sig.err, sig.stage, sig.index, NoneT)
       ELSE IF selP.err # "none" THEN Raised(selP.err, "pheno", 0, NoneT)
       ELSE IF ph.err # "none" THEN Raised(ph.err, ph.stage, ph.index, NoneT)
       ELSE IF dec.err # "none" THEN Raised(dec.err, "decoder", 0, lat_all)
       ELSE [status |-> "ok", stage |-> "none", index |-> 0, bag |-> TRUE,
             x |-> Batch(self), lat_main |-> lat_main,
             lat_signature |-> sig.lat, signature_out |-> sig.out,
             lat_pheno |-> ph.lat, pheno_out |-> ph.out,
             re_x |-> dec.out, lat_all |-> lat_all,
             decoder_arg |-> IF c.forward_reconstruction THEN lat_all ELSE NoneT]

NoCall ==
    [forward_signature |-> TRUE, selected_signature |-> NoneSel,
     forward_pheno |-> TRUE, selected_pheno |-> NoneSel,
     forward_main_latent |-> TRUE, forward_reconstruction |-> TRUE]

\* ---------------------------------------------------------------- state
VARIABLES pc, args, self, call, ret

vars == <<pc, args, self, call, ret>>

Init ==
    /\ pc = "new"
    /\ args = NoArgs
    /\ self = NoInstance
    /\ call = NoCall
    /\ ret = NoResult

MkArgs(input_dim, encoder_neurons, decoder_neurons, main_latent_dim, signature_config, pheno_config) ==
    [input_dim |-> input_dim, encoder_neurons |-> encoder_neurons,
     decoder_neurons |-> decoder_neurons, main_latent_dim |-> main_latent_dim,
     signature_config |-> signature_config, pheno_config |-> pheno_config]

Calls ==
    [forward_signature : BOOLEAN,
     selected_signature : SelLists(SigNames \cup {UnknownName}, MaxSel),
     forward_pheno : BOOLEAN,
     selected_pheno : SelLists(PhenoNames \cup {UnknownName}, Cardinality(PhenoNames)),
     forward_main_latent : BOOLEAN,
     forward_reconstruction : BOOLEAN]

\* Extractor(...): the instance exists iff every layer constructor accepted
\* its widths.
Construct(a, rejectZero) ==
    /\ LET r == ExtractorInit(a) IN
         IF LayerCtorOk(r.widths, rejectZero)
         THEN pc' = "ready" /\ self' = r.self
         ELSE pc' = "failed" /\ self' = NoInstance
    /\ args' = a
    /\ UNCHANGED <<call, ret>>

\* construction from a valid configuration: positive widths, the default
\* hidden widths
ConstructValid ==
    /\ pc = "new"
    /\ \E sc \in ConfigsOver(SigNames, Cardinality(SigNames), LatDims, OutDims) :
       \E pcfg \in ConfigsOver(PhenoNames, Cardinality(PhenoNames), LatDims, OutDims) :
       \E i \in InputDims, m \in MainDims, rejectZero \in BOOLEAN :
          Construct(MkArgs(i, EncoderNeuronsDefault, DecoderNeuronsDefault, m, sc, pcfg),
                    rejectZero)

\* construction from any widths, zero and negative ones included
ConstructAny ==
    /\ pc = "new"
    /\ \E sc \in ConfigsOver(SigNames, 1, CtorDims, CtorDims) :
       \E pcfg \in ConfigsOver(PhenoNames, 1, CtorDims, CtorDims) :
       \E i \in CtorDims, e \in CtorDims, d \in CtorDims, m \in CtorDims :
       \E rejectZero \in BOOLEAN :
          Construct(MkArgs(i, e, d, m, sc, pcfg), rejectZero)

\* a failed or finished construction is dropped and another one attempted
Discard ==
    /\ pc \in {"failed", "ready"}
    /\ pc' = "new"
    /\ args' = NoArgs
    /\ self' = NoInstance
    /\ UNCHANGED <<call, ret>>

\* extractor(batch, ...): forward never assigns to self
ForwardCall ==
    /\ pc = "ready"
    /\ \E c \in Calls :
         /\ call' = c
         /\ ret' = Forward(self, c)
    /\ pc' = "returned"
    /\ UNCHANGED <<args, self>>

\* the caller is done with the result bag (or the exception)
Return ==
    /\ pc = "returned"
    /\ pc' = "ready"
    /\ call' = NoCall
    /\ ret' = NoResult
    /\ UNCHANGED <<args, self>>

Next == ConstructValid \/ ForwardCall \/ Return

Spec == Init /\ [][Next]_vars

NextCtor == ConstructAny \/ Discard

SpecCtor == Init /\ [][NextCtor]_vars

\* ------------------------------------------------------- claim vocabulary
Constructed == pc \in {"ready", "returned"}

Returned == pc = "returned"

Completed == pc = "returned" /\ ret.status = "ok"

RECURSIVE SumLatOver(_, _)
SumLatOver(items, idx) ==
    IF idx = {} THEN 0
    ELSE LET i == CHOOSE j \in idx : TRUE
         IN items[i].lat_dim + SumLatOver(items, idx \ {i})

\* sum of the latent widths a configuration declares (an absent one: none)
ConfiguredLatSum(cfg) ==
    IF cfg.none THEN 0 ELSE SumLatOver(cfg.items, DOMAIN cfg.items)

ExpectedDecoderWidth ==
    args.main_latent_dim + ConfiguredLatSum(args.signature_config)
                         + ConfiguredLatSum(args.pheno_config)

Range(seq) == {seq[i] : i \in 1..Len(seq)}

Names(t, kind) == {t.cols[i].name : i \in {j \in 1..Len(t.cols) : t.cols[j].kind = kind}}

KeyIndex(cfg, name) == CHOOSE i \in 1..Len(cfg.items) : cfg.items[i].name = name

Min(S) == CHOOSE i \in S : \A j \in S : i <= j

\* C1: After construction the decoder's input width is main_latent_dim
\* plus the latent widths of all configured signatures and phenotypes, and
\* it is still that after any forward call.
C1_DecoderWidthIsTotalLatentDim ==
    Constructed => self.model.decoder.input_dim = ExpectedDecoderWidth

C1_Witness ==
    /\ Completed
    /\ Len(self.signature_config.items) = 2
    /\ Len(self.pheno_config.items) = 1
    /\ self.model.decoder.input_dim > self.main_latent_dim + 2

\* C2: With reconstruction and the main latent requested, no explicit
\* subsets and both configurations present, the accumulator handed to the
\* decoder has the width fixed at construction, whatever forward_signature
\* and forward_pheno are, and the call completes with re_x present.
C2_DefaultCallFeedsDecoderFullWidth ==
    (/\ Returned
     /\ call.forward_reconstruction /\ call.forward_main_latent
     /\ call.selected_signature.none /\ call.selected_pheno.none
     /\ ~self.signature_config.none /\ ~self.pheno_config.none)
    => /\ ret.status = "ok"
       /\ ~ret.re_x.none
       /\ Width(ret.decoder_arg) = ExpectedDecoderWidth
       /\ Width(ret.decoder_arg) = self.model.decoder.input_dim
       /\ ret.lat_all = ret.decoder_arg

C2_Witness ==
    /\ Completed
    /\ call.forward_reconstruction /\ call.forward_main_latent
    /\ ~call.forward_signature /\ ~call.forward_pheno
    /\ call.selected_signature.none /\ call.selected_pheno.none
    /\ Len(self.signature_config.items) = 2
    /\ Len(self.pheno_config.items) = 1
    /\ ~ret.re_x.none

\* ---- ordering of the accumulator
\* the position of a block in the order main < signatures < phenotypes
KindRank(kind) == IF kind = "main" THEN 0 ELSE IF kind = "signature" THEN 1 ELSE 2

CfgOfKind(kind) == IF kind = "signature" THEN self.signature_config ELSE self.pheno_config

\* block a may stand before block b under the ordering contract
InContractOrder(a, b) ==
    \/ KindRank(a.kind) < KindRank(b.kind)
    \/ /\ a.kind = b.kind /\ a.kind # "main"
       /\ KeyIndex(CfgOfKind(a.kind), a.name) <= KeyIndex(CfgOfKind(b.kind), b.name)

\* C3: In every completed call lat_all is the main latent (if forwarded),
\* then the appended signature latents in signature_config key order, then
\* the appended phenotype latents in pheno_config key order - also when an
\* explicit selected list is given in another order.
C3_AccumulatorInConfigKeyOrder ==
    (Completed /\ ~ret.lat_all.none)
    => /\ call.forward_main_latent
          => ret.lat_all.cols[1].kind = "main"
       /\ \A i, j \in 1..Len(ret.lat_all.cols) :
             i < j => InContractOrder(ret.lat_all.cols[i], ret.lat_all.cols[j])

\* ---- predictor outputs
\* C4: A completed call with forward_signature=False and an explicit
\* selected_signature list returns signature_out and lat_signature keyed by
\* exactly the selected signatures, whatever the other flags; likewise
\* pheno_out and lat_pheno with forward_pheno=False and selected_pheno.
C4_OutputsForExactlyTheSelected ==
    /\ (Completed /\ ~call.forward_signature /\ ~call.selected_signature.none)
       => /\ DOMAIN ret.signature_out = Range(call.selected_signature.names)
          /\ DOMAIN ret.lat_signature = Range(call.selected_signature.names)
          /\ \A n \in DOMAIN ret.signature_out :
                Width(ret.signature_out[n]) =
                  self.signature_config.items[KeyIndex(self.signature_config, n)].out_dim
    /\ (Completed /\ ~call.forward_pheno /\ ~call.selected_pheno.none)
       => /\ DOMAIN ret.pheno_out = Range(call.selected_pheno.names)
          /\ DOMAIN ret.lat_pheno = Range(call.selected_pheno.names)

\* the selected signature's latent is not in the accumulator, its output is
\* still returned
C4_Witness ==
    /\ Completed
    /\ ~call.forward_signature /\ ~call.forward_reconstruction
    /\ call.forward_main_latent
    /\ call.selected_signature = Sel(<<"s2">>)
    /\ Len(self.signature_config.items) = 2
    /\ DOMAIN ret.signature_out = {"s2"}
    /\ Names(ret.lat_all, "signature") = {}

\* ---- unknown names
UnknownSignatureIdx ==
    IF call.selected_signature.none THEN {}
    ELSE {i \in 1..Len(call.selected_signature.names) :
            call.selected_signature.names[i] \notin KeySet(self.signature_config)}

UnknownPhenoIdx ==
    IF call.selected_pheno.none THEN {}
    ELSE {i \in 1..Len(call.selected_pheno.names) :
            call.selected_pheno.names[i] \notin KeySet(self.pheno_config)}

HasUnknownName == UnknownSignatureIdx # {} \/ UnknownPhenoIdx # {}

\* where the first unknown name is looked up: the signature loop runs first
FirstUnknownStage == IF UnknownSignatureIdx # {} THEN "signature" ELSE "pheno"

FirstUnknownIndex ==
    IF UnknownSignatureIdx # {} THEN Min(UnknownSignatureIdx) ELSE Min(UnknownPhenoIdx)

\* the step (stage, index) comes before the lookup of the first unknown name
BeforeFirstUnknown(stage, index) ==
    \/ stage = "signature" /\ FirstUnknownStage = "pheno"
    \/ stage = FirstUnknownStage /\ index < FirstUnknownIndex

NoBagReturned ==
    /\ ~ret.bag
    /\ ret.lat_main.none /\ ret.lat_all.none /\ ret.re_x.none /\ ret.x.none
    /\ DOMAIN ret.lat_signature = {} /\ DOMAIN ret.signature_out = {}
    /\ DOMAIN ret.lat_pheno = {} /\ DOMAIN ret.pheno_out = {}

ModelUnchanged == self = ExtractorInit(args).self

\* C5 as stated: a call with an unknown name in selected_signature or
\* selected_pheno fails with a key error at the first unknown name, returns
\* no result bag and leaves registry and configuration unchanged.
C5_UnknownNameIsKeyErrorAtFirstUnknown ==
    (Returned /\ HasUnknownName)
    => /\ ret.status = "KeyError"
       /\ ret.stage = FirstUnknownStage /\ ret.index = FirstUnknownIndex
       /\ NoBagReturned
       /\ ModelUnchanged

\* C5 amended: such a call fails no later than the first unknown name,
\* returns no result bag and leaves registry and configuration unchanged.
\* The error is the key error at the first unknown name when
\* forward_main_latent=True and no absent configuration is defaulted to
\* before it; otherwise an earlier step may raise first: a TypeError from
\* concatenating onto the null accumulator (forward_main_latent=False), or
\* an AttributeError from taking the keys of an absent configuration.
C5_UnknownNameFailsWithoutBag ==
    (Returned /\ HasUnknownName)
    => /\ ret.status \in {"KeyError", "TypeError", "AttributeError"}
       /\ NoBagReturned
       /\ ModelUnchanged
       /\ ret.status = "KeyError"
          => ret.stage = FirstUnknownStage /\ ret.index = FirstUnknownIndex
       /\ ret.status = "TypeError"
          => ~call.forward_main_latent /\ BeforeFirstUnknown(ret.stage, ret.index)
       /\ ret.status = "AttributeError"
          => /\ ret.stage = "signature" /\ ret.index = 0 /\ FirstUnknownStage = "pheno"
             /\ self.signature_config.none /\ call.selected_signature.none
       /\ (/\ call.forward_main_latent
           /\ ~(self.signature_config.none /\ call.selected_signature.none))
          => ret.status = "KeyError"

\* a known group was processed before the unknown name was met
C5_Witness ==
    /\ Returned
    /\ call.selected_signature = Sel(<<"s1", UnknownName>>)
    /\ "s1" \in KeySet(self.signature_config)
    /\ call.forward_main_latent
    /\ ret.status = "KeyError" /\ ret.stage = "signature" /\ ret.index = 2
    /\ ~ret.bag

\* ---- partial subsets and the decoder
\* an explicit list leaves out a configured group
OmitsConfiguredGroup ==
    \/ /\ ~call.selected_signature.none
       /\ KeySet(self.signature_config) \ Range(call.selected_signature.names) # {}
    \/ /\ ~call.selected_pheno.none
       /\ KeySet(self.pheno_config) \ Range(call.selected_pheno.names) # {}

\* the call got as far as handing the accumulator to the decoder
DecoderReached == Returned /\ (ret.status = "ok" \/ ret.stage = "decoder")

\* C6: Whenever a call with forward_reconstruction=True whose explicit list
\* omits a configured group (in any order, names possibly repeated) hands
\* its accumulator to the decoder, the accumulator is strictly narrower than
\* the decoder's input width and the decoder step fails.
C6_OmittingAGroupFailsTheDecoder ==
    (DecoderReached /\ call.forward_reconstruction /\ OmitsConfiguredGroup)
    => /\ Width(ret.decoder_arg) < self.model.decoder.input_dim
       /\ ret.status # "ok"

\* ---- the null accumulator
\* the first group the loops process, if the call gets to one
HasFirstActiveGroup ==
    LET s == ActiveSignatures(self, call)
        p == ActivePhenos(self, call)
    IN /\ s.err = "none"
       /\ \/ Len(s.names) > 0
          \/ p.err = "none" /\ Len(p.names) > 0

FirstActiveStage ==
    IF Len(ActiveSignatures(self, call).names) > 0 THEN "signature" ELSE "pheno"

FirstActiveName ==
    IF FirstActiveStage = "signature" THEN ActiveSignatures(self, call).names[1]
    ELSE ActivePhenos(self, call).names[1]

FirstActiveIsConfigured ==
    FirstActiveName \in KeySet(CfgOfKind(FirstActiveStage))

C9_AppendedIffForwardedOrReconstructed ==
    (Completed /\ call.forward_main_latent)
    => LET sigs == Range(ActiveSignatures(self, call).names)
           phs == Range(ActivePhenos(self, call).names)
       IN /\ ~call.forward_reconstruction
             => /\ \A n \in sigs :
                     n \in Names(ret.lat_all, "signature") <=> call.forward_signature
                /\ \A n \in phs :
                     n \in Names(ret.lat_all, "pheno") <=> call.forward_pheno
                /\ ret.re_x.none
                /\ (~call.forward_signature /\ ~call.forward_pheno)
                   => ret.lat_all = ret.lat_main
          /\ call.forward_reconstruction
             => /\ sigs \subseteq Names(ret.lat_all, "signature")
                /\ phs \subseteq Names(ret.lat_all, "pheno")
                /\ ~ret.re_x.none
          /\ Names(ret.lat_all, "signature") \subseteq sigs
          /\ Names(ret.lat_all, "pheno") \subseteq phs
          /\ ret.lat_all.cols[1] = ret.lat_main.cols[1]

C9_Witness ==
    /\ Completed /\ call.forward_main_latent /\ ~call.forward_reconstruction
    /\ ~call.forward_signature /\ call.forward_pheno
    /\ Len(ActiveSignatures(self, call).names) > 0
    /\ Names(ret.lat_all, "signature") = {}
    /\ Names(ret.lat_all, "pheno") = {"p1"}

\* ---- absent configurations
\* C10: On a model built with signature_config=None every call with
\* selected_signature=None fails and returns no result bag, whatever the
\* flags; likewise pheno_config=None with selected_pheno=None.  Such a model
\* completes a call only when an explicit list is passed for each absent
\* configuration (and every name in such a list is unknown, so it is empty).
C10_AbsentConfigNeedsExplicitList ==
    /\ (Returned /\ self.signature_config.none /\ call.selected_signature.none)
       => ret.status = "AttributeError" /\ NoBagReturned
    /\ (Returned /\ self.pheno_config.none /\ call.selected_pheno.none)
       => ret.status # "ok" /\ NoBagReturned
    /\ (Completed /\ self.signature_config.none)
       => call.selected_signature = Sel(<<>>)
    /\ (Completed /\ self.pheno_config.none)
       => call.selected_pheno = Sel(<<>>)

C10_Witness ==
    /\ Returned
    /\ self.pheno_config.none /\ Len(self.signature_config.items) = 2
    /\ call.selected_pheno.none /\ call.selected_signature.none
    /\ ~call.forward_pheno /\ ~call.forward_reconstruction
    /\ ret.status = "AttributeError" /\ ret.stage = "pheno" /\ ret.index = 0

\* ---- construction with invalid widths
ArgDims(a) ==
    {a.input_dim, a.encoder_neurons, a.decoder_neurons, a.main_latent_dim}
    \cup {a.signature_config.items[i].lat_dim : i \in 1..Len(a.signature_config.items)}
    \cup {a.signature_config.items[i].out_dim : i \in 1..Len(a.signature_config.items)}
    \cup {a.pheno_config.items[i].lat_dim : i \in 1..Len(a.pheno_config.items)}
    \cup {a.pheno_config.items[i].out_dim : i \in 1..Len(a.pheno_config.items)}

\* C8: Construction with a zero or negative dimension fails and yields no
\* assembled model; construction with all-positive dimensions never fails.
C8_NonPositiveDimensionFailsConstruction ==
    (pc \in {"ready", "failed"})
    => (pc = "failed" <=> \E d \in ArgDims(args) : d <= 0)

====
